---- MODULE Spec2Model ----
(***************************************************************************)
(* Model of the GNA transform builders (AffineFunctions.cpp,               *)
(* PoolingFunctions.cpp) and of the Windows driver session                 *)
(* (WindowsDriverInterface.h).                                             *)
(*                                                                         *)
(* Three specifications share one set of variables:                        *)
(*   SpecAffine   AffineFunction::Create and the calls on its result       *)
(*   SpecPooling  PoolingFunction::Create (both forms) and Compute         *)
(*   SpecDriver   MemoryMap / MemoryUnmap / Submit+wait on one session     *)
(* A unique_ptr is modelled as a set: {} is nullptr, {x} owns x.           *)
(***************************************************************************)
EXTENDS Integers, Sequences, FiniteSets, TLC

\* ---------------------------------------------------------------- bounds
MaxRows == 2            \* largest output height (row count) of a descriptor
MaxCalls == 2           \* calls made on one constructed transform
MaxExtent == 7          \* largest pooling input extent
MinPoolSize == 1        \* value given to CNN_POOL_SIZE_MIN
MaxPoolSize == 6        \* value given to CNN_POOL_SIZE_MAX
MaxIterations == 3      \* value given to WAIT_FOR_MAP_ITERATIONS
MaxIds == 2             \* mapping ids the device hands out: 1..MaxIds
MaxWaits == 3           \* completion waits of one request
MaxDriverCalls == 4     \* driver calls of one session
MaxSets == 4            \* WinHandle::Set calls on one object

\* ------------------------------------------------------------- statuses
Gna2StatusSuccess == "Gna2StatusSuccess"
Gna2StatusModelConfigurationInvalid == "Gna2StatusModelConfigurationInvalid"
Gna2StatusNotImplemented == "Gna2StatusNotImplemented"
Gna2StatusActiveListIndicesInvalid == "Gna2StatusActiveListIndicesInvalid"
Gna2StatusXnnErrorLyrOperation == "Gna2StatusXnnErrorLyrOperation"
Gna2StatusCnnErrorPoolStride == "Gna2StatusCnnErrorPoolStride"
Gna2StatusCnnErrorPoolSize == "Gna2StatusCnnErrorPoolSize"
Gna2StatusCnnErrorPoolType == "Gna2StatusCnnErrorPoolType"
\* what std::map::at throws when nothing catches it
StdOutOfRange == "std::out_of_range"

\* -------------------------------------------------------- operand roles
InputOperandIndex == "InputOperandIndex"
OutputOperandIndex == "OutputOperandIndex"
WeightOperandIndex == "WeightOperandIndex"
BiasOperandIndex == "BiasOperandIndex"
PwlOperandIndex == "PwlOperandIndex"
WeightScaleFactorOperandIndex == "WeightScaleFactorOperandIndex"
OperandIndices ==
    {InputOperandIndex, OutputOperandIndex, WeightOperandIndex, BiasOperandIndex,
     PwlOperandIndex, WeightScaleFactorOperandIndex}
NoOperand == "none"

\* ----------------------------------------------------------- data modes
Gna2DataTypeInt8 == "Gna2DataTypeInt8"
Gna2DataTypeInt16 == "Gna2DataTypeInt16"
Gna2DataTypeInt32 == "Gna2DataTypeInt32"
Gna2DataTypeCompoundBias == "Gna2DataTypeCompoundBias"
Gna2DataTypeWeightScaleFactor == "Gna2DataTypeWeightScaleFactor"
Gna2TensorModeDefault == "Gna2TensorModeDefault"
Gna2TensorModeDisabled == "Gna2TensorModeDisabled"

\* bytes of one element of a data type
TypeSize(type) ==
    CASE type = Gna2DataTypeInt8 -> 1
      [] type = Gna2DataTypeInt16 -> 2
      [] type = Gna2DataTypeInt32 -> 4
      [] type = Gna2DataTypeCompoundBias -> 8
      [] OTHER -> 2

\* DataMode: (element type, storage mode, element size)
DataMode(type, mode) == [Type |-> type, Mode |-> mode, Size |-> TypeSize(type)]

\* Shape::Create: the extents of an API shape named by the layout's dimensions
ShapeCreate(apiShape, layout) ==
    [d \in {layout[i] : i \in 1..Len(layout)} |->
        LET i == CHOOSE j \in 1..Len(layout) : layout[j] = d
        IN  IF i <= Len(apiShape) THEN apiShape[i] ELSE 1]

\* An API tensor (Gna2Tensor) of an operation descriptor
ApiTensor(shape, type, mode, data) ==
    [Shape |-> shape, Type |-> type, Mode |-> mode, Data |-> data]

\* Tensor::Tensor(Gna2Tensor const &, layout, validator): the view the
\* transform owns
MakeTensor(api, layout) ==
    [Dimensions |-> ShapeCreate(api.Shape, layout),
     Mode |-> DataMode(api.Type, api.Mode),
     Buffer |-> api.Data]

LayoutHW == <<"H", "W">>
LayoutH == <<"H">>

\* ------------------------------------------------------------ operations
INTEL_AFFINE == "INTEL_AFFINE"
INTEL_AFFINE_DIAGONAL == "INTEL_AFFINE_DIAGONAL"
INTEL_RECURRENT == "INTEL_RECURRENT"
INTEL_AFFINE_MULTIBIAS == "INTEL_AFFINE_MULTIBIAS"
INTEL_CONVOLUTIONAL == "INTEL_CONVOLUTIONAL"
AffineOperations ==
    {INTEL_AFFINE, INTEL_AFFINE_DIAGONAL, INTEL_RECURRENT, INTEL_AFFINE_MULTIBIAS}

KERNEL_AFFINE == "KERNEL_AFFINE"
KERNEL_AFFINE_AL == "KERNEL_AFFINE_AL"
KERNEL_AFFINE_MULTIBIAS == "KERNEL_AFFINE_MULTIBIAS"
KERNEL_AFFINE_DIAGONAL == "KERNEL_AFFINE_DIAGONAL"
KERNEL_RECURRENT == "KERNEL_RECURRENT"
KERNEL_POOLING == "KERNEL_POOLING"

Gna2BiasModeDefault == "Gna2BiasModeDefault"
Gna2BiasModeGrouping == "Gna2BiasModeGrouping"

\* acceleration modes; only Generic is built with OPT_LEVEL < 2
Generic == "Generic"
Sse4 == "Sse4"
Avx2 == "Avx2"
AccelerationModes == {Generic, Sse4, Avx2}
LowOptLevelModes == {Generic}

VARIABLES
    detected,       \* acceleration modes found at hardware detection
    alBiasTypes,    \* bias types the active-list kernels were built for
    operationConfig,\* the descriptor given to AffineFunction::Create ({}: none yet)
    created,        \* what AffineFunction::Create gave: [status, operand, transform]
    ret,            \* what the last call on the transform gave
    nCalls,         \* calls made on the transform
    poolRequest,    \* the arguments given to PoolingFunction::Create ({}: none yet)
    pooling,        \* what PoolingFunction::Create gave: [status, ctor, function]
    poolRet,        \* what the last PoolingFunction::Compute gave
    pc,             \* the driver session's position
    memoryMapRequests, \* WindowsDriverInterface::memoryMapRequests (its keys)
    mapping,        \* the MemoryMap in progress
    request,        \* the submitted request and its wait
    device,         \* what the device does with the buffer and with the request
    lastCall,       \* what the last driver call gave
    nDriverCalls,   \* driver calls made
    winHandle,      \* a WinHandle object: its lifetime and its deviceHandle
    closed,         \* the handles CloseHandle was called with, in order
    handleRet,      \* what the last WinHandle::Set gave
    nSets           \* WinHandle::Set calls made

affineVars == <<detected, alBiasTypes, operationConfig, created, ret, nCalls>>
poolVars == <<poolRequest, pooling, poolRet>>
driverVars == <<pc, memoryMapRequests, mapping, request, device, lastCall, nDriverCalls>>
handleVars == <<winHandle, closed, handleRet, nSets>>
vars == <<affineVars, poolVars, driverVars, handleVars>>

\* --------------------------------------------- capabilities and validation
\* WeightTensor's capabilities: a 2-D tensor of 1- or 2-byte integers
WeightCapable(api) ==
    /\ api.Mode = Gna2TensorModeDefault
    /\ api.Type \in {Gna2DataTypeInt8, Gna2DataTypeInt16}
    /\ Len(api.Shape) = 2
    /\ \A i \in 1..Len(api.Shape) : api.Shape[i] >= 1

BiasTypes ==
    {Gna2DataTypeInt8, Gna2DataTypeInt16, Gna2DataTypeInt32, Gna2DataTypeCompoundBias}

\* BiasTensor's capabilities: one bias vector (default mode) or a table of bias
\* vectors of which biasVectorIndex selects one (grouping mode)
BiasCapable(api, biasVectorIndex, biasMode) ==
    /\ api.Mode = Gna2TensorModeDefault
    /\ api.Type \in BiasTypes
    /\ \A i \in 1..Len(api.Shape) : api.Shape[i] >= 1
    /\ IF biasMode = Gna2BiasModeGrouping
       THEN Len(api.Shape) = 2 /\ biasVectorIndex < api.Shape[2]
       ELSE Len(api.Shape) = 1

\* AffineFunctionMulti::Capabilities and ModelErrorHelper::ExpectNotNull
WeightScaleCapable(api) ==
    /\ api.Type = Gna2DataTypeWeightScaleFactor
    /\ Len(api.Shape) = 1
    /\ \A i \in 1..Len(api.Shape) : api.Shape[i] >= 1
    /\ api.Data # "null"

AffineFunctionSingle_outputCapabilities ==
    {INTEL_AFFINE, INTEL_AFFINE_DIAGONAL, INTEL_RECURRENT}
AffineFunctionMulti_outputCapabilities == {INTEL_AFFINE_MULTIBIAS}

\* Tensor::Tensor(Shape, DataMode, buffer, Validator{validator, capabilities}) for
\* the output: the operation has an entry and the tensor satisfies it
OutputCapable(capabilities, operation, output) ==
    /\ operation \in capabilities
    /\ output.Mode.Type \in {Gna2DataTypeInt8, Gna2DataTypeInt16, Gna2DataTypeInt32}
    /\ output.Dimensions["H"] >= 1
    /\ output.Dimensions["W"] >= 1

\* ------------------------------------------------------- kernel resolver
KernelMode(input, weights, biases) ==
    [input |-> input, weights |-> weights, biases |-> biases]

\* the (operation, KernelMode) buckets the dispatch table holds
HasBucket(operation, kernelMode) ==
    /\ \/ /\ kernelMode.input.Type = Gna2DataTypeInt16
          /\ \/ /\ kernelMode.weights.Type = Gna2DataTypeInt8
                /\ kernelMode.biases.Type = Gna2DataTypeCompoundBias
             \/ /\ kernelMode.weights.Type = Gna2DataTypeInt16
                /\ kernelMode.biases.Type = Gna2DataTypeInt32
       \/ /\ kernelMode.input.Type = Gna2DataTypeInt8
          /\ kernelMode.weights.Type \in {Gna2DataTypeInt8, Gna2DataTypeInt16}
          /\ kernelMode.biases.Type \in
                {Gna2DataTypeInt8, Gna2DataTypeInt16, Gna2DataTypeInt32}
    /\ operation = KERNEL_AFFINE_AL => kernelMode.biases.Type \in alBiasTypes

\* the acceleration modes of a bucket: the 1-byte-input kernels (...Impl1B1B,
\* ...Impl1B2B) exist only where OPT_LEVEL < 2
BucketModes(inputType) ==
    IF inputType = Gna2DataTypeInt8 THEN detected \cap LowOptLevelModes ELSE detected

\* AccelerationDetector::GetKernelMap: the KernelMap of a bucket, or the
\* not-implemented condition when the table has no such bucket
GetKernelMap(operation, kernelMode) ==
    IF HasBucket(operation, kernelMode)
    THEN [found |-> TRUE, map |-> BucketModes(kernelMode.input.Type)]
    ELSE [found |-> FALSE, map |-> {}]

\* OperationConfig::GetKernelOperation
GetKernelOperation(operation) ==
    CASE operation = INTEL_AFFINE -> KERNEL_AFFINE
      [] operation = INTEL_AFFINE_DIAGONAL -> KERNEL_AFFINE_DIAGONAL
      [] operation = INTEL_RECURRENT -> KERNEL_RECURRENT
      [] OTHER -> KERNEL_AFFINE_MULTIBIAS

\* ------------------------------------------------------- affine builders
Thrown(status, operand) == [status |-> status, operand |-> operand, transform |-> {}]
Returned(transform) ==
    [status |-> Gna2StatusSuccess, operand |-> NoOperand, transform |-> {transform}]

\* WeightTensor::WeightTensor(weightTensor, validator)
WeightTensor(api) == MakeTensor(api, LayoutHW)

\* BiasTensor::BiasTensor(biasTensor, biasVectorIndex, biasMode, validator)
BiasTensor(api, biasVectorIndex, biasMode) ==
    MakeTensor(api, IF biasMode = Gna2BiasModeGrouping THEN LayoutHW ELSE LayoutH)

\* AffineFunction::AffineFunction: the base part of both variants
AffineFunction(variant, config, kernels, weights, biases) ==
    [variant |-> variant,
     Operation |-> config.validator.Operation,
     Input |-> {config.input},
     kernels |-> {kernels},
     Weights |-> {weights},
     Biases |-> {biases},
     WeightScaleFactors |-> {},
     kernelsAl |-> {},
     Output |-> {},
     hiddenConfig |-> {}]

\* the output tensor both constructors build from config.output
OutputTensor(config) ==
    [Dimensions |-> [d \in {"H", "W"} |-> config.output.Dimensions[d]],
     Mode |-> config.output.Mode,
     Buffer |-> config.outputBuffer]

\* a constructor that keeps the transform although the output tensor is refused
AffineFunctionSingle_KeepsInvalidOutput(config, kernels, weights, biases) ==
    LET base == AffineFunction("Single", config, kernels, weights, biases)
        kernelsAl == GetKernelMap(KERNEL_AFFINE_AL,
                        KernelMode(config.input.Mode, weights.Mode, biases.Mode))
    IN  IF ~kernelsAl.found
        THEN Thrown(Gna2StatusNotImplemented, NoOperand)
        ELSE Returned([base EXCEPT
                !.kernelsAl = {kernelsAl.map},
                !.Output = {OutputTensor(config)},
                !.hiddenConfig = {[outputElementCount |-> config.output.Dimensions["H"],
                                   inputVectorCount |-> config.output.Dimensions["W"],
                                   inputElementCount |-> config.input.Dimensions["H"],
                                   multiBias |-> {},
                                   multiBiasVectorCount |-> 0,
                                   weightScaleFactors |-> {},
                                   bytesPerBias |-> biases.Mode.Size]}])

\* AffineFunctionSingle::AffineFunctionSingle
AffineFunctionSingle(config, kernels, weights, biases) ==
    LET base == AffineFunction("Single", config, kernels, weights, biases)
        kernelsAl == GetKernelMap(KERNEL_AFFINE_AL,
                        KernelMode(config.input.Mode, weights.Mode, biases.Mode))
    IN  IF ~kernelsAl.found
        THEN Thrown(Gna2StatusNotImplemented, NoOperand)
        ELSE IF ~OutputCapable(AffineFunctionSingle_outputCapabilities,
                               config.validator.Operation, OutputTensor(config))
        THEN Thrown(Gna2StatusModelConfigurationInvalid, OutputOperandIndex)
        ELSE Returned([base EXCEPT
                !.kernelsAl = {kernelsAl.map},
                !.Output = {OutputTensor(config)},
                !.hiddenConfig = {[outputElementCount |-> config.output.Dimensions["H"],
                                   inputVectorCount |-> config.output.Dimensions["W"],
                                   inputElementCount |-> config.input.Dimensions["H"],
                                   multiBias |-> {},
                                   multiBiasVectorCount |-> 0,
                                   weightScaleFactors |-> {},
                                   bytesPerBias |-> biases.Mode.Size]}])

\* AffineFunctionMulti::AffineFunctionMulti
AffineFunctionMulti(config, kernels, weights, biases, weightScaleFactors) ==
    LET base == AffineFunction("Multi", config, kernels, weights, biases)
    IN  IF ~OutputCapable(AffineFunctionMulti_outputCapabilities,
                          config.validator.Operation, OutputTensor(config))
        THEN Thrown(Gna2StatusModelConfigurationInvalid, OutputOperandIndex)
        ELSE Returned([base EXCEPT
                !.WeightScaleFactors = weightScaleFactors,
                !.Output = {OutputTensor(config)},
                !.hiddenConfig = {[outputElementCount |-> config.output.Dimensions["H"],
                                   inputVectorCount |-> config.input.Dimensions["W"],
                                   inputElementCount |-> config.input.Dimensions["H"],
                                   multiBias |-> {biases},
                                   multiBiasVectorCount |-> biases.Dimensions["W"],
                                   weightScaleFactors |-> weightScaleFactors,
                                   bytesPerBias |-> biases.Mode.Size]}])

\* AffineFunction::createAffineSingleFunction
createAffineSingleFunction(config, opConfig) ==
    IF ~WeightCapable(opConfig.WeightsTensor)
    THEN Thrown(Gna2StatusModelConfigurationInvalid, WeightOperandIndex)
    ELSE IF ~BiasCapable(opConfig.BiasesTensor, 0, Gna2BiasModeDefault)
    THEN Thrown(Gna2StatusModelConfigurationInvalid, BiasOperandIndex)
    ELSE
        LET weights == WeightTensor(opConfig.WeightsTensor)
            biases == BiasTensor(opConfig.BiasesTensor, 0, Gna2BiasModeDefault)
            affineKernel == GetKernelMap(GetKernelOperation(opConfig.Operation),
                                KernelMode(config.input.Mode, weights.Mode, biases.Mode))
        IN  IF ~affineKernel.found
            THEN Thrown(Gna2StatusNotImplemented, NoOperand)
            ELSE AffineFunctionSingle(config, affineKernel.map, weights, biases)

\* a builder that makes the weight-scale tensor whatever its mode
createAffineMultiFunction_IgnoresDisabled(config, opConfig) ==
    IF ~WeightCapable(opConfig.WeightsTensor)
    THEN Thrown(Gna2StatusModelConfigurationInvalid, WeightOperandIndex)
    ELSE IF ~BiasCapable(opConfig.BiasesTensor, opConfig.BiasVectorIndex,
                         Gna2BiasModeGrouping)
    THEN Thrown(Gna2StatusModelConfigurationInvalid, BiasOperandIndex)
    ELSE
        LET weights == WeightTensor(opConfig.WeightsTensor)
            biases == BiasTensor(opConfig.BiasesTensor, opConfig.BiasVectorIndex,
                                 Gna2BiasModeGrouping)
            weightScales == {MakeTensor(opConfig.WeightScalesTensor, LayoutH)}
            affineKernel == GetKernelMap(KERNEL_AFFINE_MULTIBIAS,
                                KernelMode(config.input.Mode, weights.Mode, biases.Mode))
        IN  IF ~affineKernel.found
            THEN Thrown(Gna2StatusNotImplemented, NoOperand)
            ELSE AffineFunctionMulti(config, affineKernel.map, weights, biases,
                                     weightScales)

\* AffineFunction::createAffineMultiFunction
createAffineMultiFunction(config, opConfig) ==
    IF ~WeightCapable(opConfig.WeightsTensor)
    THEN Thrown(Gna2StatusModelConfigurationInvalid, WeightOperandIndex)
    ELSE IF ~BiasCapable(opConfig.BiasesTensor, opConfig.BiasVectorIndex,
                         Gna2BiasModeGrouping)
    THEN Thrown(Gna2StatusModelConfigurationInvalid, BiasOperandIndex)
    ELSE IF /\ opConfig.WeightScalesTensor.Mode # Gna2TensorModeDisabled
            /\ ~WeightScaleCapable(opConfig.WeightScalesTensor)
    THEN Thrown(Gna2StatusModelConfigurationInvalid, WeightScaleFactorOperandIndex)
    ELSE
        LET weights == WeightTensor(opConfig.WeightsTensor)
            biases == BiasTensor(opConfig.BiasesTensor, opConfig.BiasVectorIndex,
                                 Gna2BiasModeGrouping)
            weightScales ==
                IF opConfig.WeightScalesTensor.Mode # Gna2TensorModeDisabled
                THEN {MakeTensor(opConfig.WeightScalesTensor, LayoutH)}
                ELSE {}
            affineKernel == GetKernelMap(KERNEL_AFFINE_MULTIBIAS,
                                KernelMode(config.input.Mode, weights.Mode, biases.Mode))
        IN  IF ~affineKernel.found
            THEN Thrown(Gna2StatusNotImplemented, NoOperand)
            ELSE AffineFunctionMulti(config, affineKernel.map, weights, biases,
                                     weightScales)

\* a Create that builds the single-bias variant whatever the bias mode
AffineFunction_Create_AlwaysSingle(config, opConfig) ==
    createAffineSingleFunction(config, opConfig)

\* AffineFunction::Create
AffineFunction_Create(config, opConfig) ==
    IF opConfig.BiasMode = Gna2BiasModeGrouping
    THEN createAffineMultiFunction(config, opConfig)
    ELSE createAffineSingleFunction(config, opConfig)

\* --------------------------------------------------- calls on a transform
StatusOperandNotPresent == "OperandNotPresent"

\* Transform::GetOperandIfExistOrThrow
GetOperandIfExistOrThrow(operand) ==
    IF operand = {}
    THEN [status |-> StatusOperandNotPresent, tensor |-> {}]
    ELSE [status |-> Gna2StatusSuccess, tensor |-> operand]

\* Transform::GetOperand, the base class's answer
Transform_GetOperand(t, operandIndex) ==
    CASE operandIndex = InputOperandIndex -> GetOperandIfExistOrThrow(t.Input)
      [] operandIndex = OutputOperandIndex -> GetOperandIfExistOrThrow(t.Output)
      [] OTHER -> [status |-> StatusOperandNotPresent, tensor |-> {}]

\* a GetOperand that answers the weight role with the biases
AffineFunction_GetOperand_Swapped(t, operandIndex) ==
    CASE operandIndex = WeightOperandIndex -> GetOperandIfExistOrThrow(t.Biases)
      [] operandIndex = BiasOperandIndex -> GetOperandIfExistOrThrow(t.Weights)
      [] OTHER -> Transform_GetOperand(t, operandIndex)

\* AffineFunction::GetOperand
AffineFunction_GetOperand(t, operandIndex) ==
    CASE operandIndex = WeightOperandIndex -> GetOperandIfExistOrThrow(t.Weights)
      [] operandIndex = BiasOperandIndex -> GetOperandIfExistOrThrow(t.Biases)
      [] OTHER -> Transform_GetOperand(t, operandIndex)

\* AffineFunctionMulti::GetOperand
AffineFunctionMulti_GetOperand(t, operandIndex) ==
    CASE operandIndex = WeightScaleFactorOperandIndex ->
            GetOperandIfExistOrThrow(t.WeightScaleFactors)
      [] OTHER -> AffineFunction_GetOperand(t, operandIndex)

\* the virtual call transform->GetOperand(operandIndex)
GetOperand(t, operandIndex) ==
    IF t.variant = "Multi"
    THEN AffineFunctionMulti_GetOperand(t, operandIndex)
    ELSE AffineFunction_GetOperand(t, operandIndex)

\* Expect::InRange(value, min, max, status): passes when min <= value <= max
InRange(value, min, max) == min <= value /\ value <= max

\* Tensor::at(dimension)
TensorAt(tensor, dimension) == tensor.Dimensions[dimension]

TheOne(set) == CHOOSE x \in set : TRUE

\* a validation whose lower limit is 0
ValidateActiveList_FromZero(t, activeList) ==
    IF ~InRange(activeList.IndicesCount, 0, TensorAt(TheOne(t.Output), "H"))
    THEN Gna2StatusActiveListIndicesInvalid
    ELSE IF TheOne(t.Biases).Mode.Type \notin
                {Gna2DataTypeInt32, Gna2DataTypeCompoundBias}
    THEN Gna2StatusModelConfigurationInvalid
    ELSE Gna2StatusSuccess

\* a validation that looks at the bias type before the index count
ValidateActiveList_BiasFirst(t, activeList) ==
    IF TheOne(t.Biases).Mode.Type \notin
                {Gna2DataTypeInt32, Gna2DataTypeCompoundBias}
    THEN Gna2StatusModelConfigurationInvalid
    ELSE IF ~InRange(activeList.IndicesCount, 1, TensorAt(TheOne(t.Output), "H"))
    THEN Gna2StatusActiveListIndicesInvalid
    ELSE Gna2StatusSuccess

\* AffineFunctionSingle::ValidateActiveList: the status it throws, or success
ValidateActiveList(t, activeList) ==
    IF ~InRange(activeList.IndicesCount, 1, TensorAt(TheOne(t.Output), "H"))
    THEN Gna2StatusActiveListIndicesInvalid
    ELSE IF TheOne(t.Biases).Mode.Type \notin
                {Gna2DataTypeInt32, Gna2DataTypeCompoundBias}
    THEN Gna2StatusModelConfigurationInvalid
    ELSE Gna2StatusSuccess

\* AffineFunctionSingle::Compute: layerConfiguration is a pointer ({}: nullptr)
\* to a configuration whose ActList is a pointer too
AffineFunctionSingle_Compute(t, accel, layerConfiguration) ==
    IF layerConfiguration # {} /\ TheOne(layerConfiguration).ActList # {}
    THEN IF accel \in TheOne(t.kernelsAl)
         THEN [status |-> Gna2StatusSuccess, kernel |-> "kernelsAl"]
         ELSE [status |-> Gna2StatusNotImplemented, kernel |-> "none"]
    ELSE IF accel \in TheOne(t.kernels)
         THEN [status |-> Gna2StatusSuccess, kernel |-> "kernels"]
         ELSE [status |-> Gna2StatusNotImplemented, kernel |-> "none"]

\* Transform::Compute, which AffineFunctionMulti inherits
Transform_Compute(t, accel, layerConfiguration) ==
    IF accel \in TheOne(t.kernels)
    THEN [status |-> Gna2StatusSuccess, kernel |-> "kernels"]
    ELSE [status |-> Gna2StatusNotImplemented, kernel |-> "none"]

\* the virtual call transform->Compute(accel, layerConfiguration, execution)
Compute(t, accel, layerConfiguration) ==
    IF t.variant = "Single"
    THEN AffineFunctionSingle_Compute(t, accel, layerConfiguration)
    ELSE Transform_Compute(t, accel, layerConfiguration)

\* ------------------------------------------- descriptors given to Create
WeightsTensors ==
    {ApiTensor(<<MaxRows, 2>>, Gna2DataTypeInt8, Gna2TensorModeDefault, "weights"),
     ApiTensor(<<MaxRows, 2>>, Gna2DataTypeInt16, Gna2TensorModeDefault, "weights"),
     ApiTensor(<<MaxRows, 2>>, Gna2DataTypeInt32, Gna2TensorModeDefault, "weights"),
     ApiTensor(<<0, 2>>, Gna2DataTypeInt8, Gna2TensorModeDefault, "weights")}

BiasesTensors ==
    {ApiTensor(shape, type, Gna2TensorModeDefault, "biases") :
        shape \in {<<MaxRows>>, <<MaxRows, 2>>},
        type \in {Gna2DataTypeInt16, Gna2DataTypeInt32, Gna2DataTypeCompoundBias,
                  Gna2DataTypeWeightScaleFactor}}

DisabledTensor == ApiTensor(<<>>, Gna2DataTypeInt8, Gna2TensorModeDisabled, "null")
WeightScalesTensors ==
    {DisabledTensor,
     ApiTensor(<<MaxRows>>, Gna2DataTypeWeightScaleFactor, Gna2TensorModeDefault, "scales"),
     ApiTensor(<<MaxRows>>, Gna2DataTypeWeightScaleFactor, Gna2TensorModeDefault, "null")}

InputTensors ==
    {[Dimensions |-> [d \in {"H", "W"} |-> IF d = "H" THEN 2 ELSE 1],
      Mode |-> DataMode(type, Gna2TensorModeDefault),
      Buffer |-> "input"] : type \in {Gna2DataTypeInt8, Gna2DataTypeInt16}}

OutputTensors ==
    {[Dimensions |-> [d \in {"H", "W"} |-> IF d = "H" THEN rows ELSE 1],
      Mode |-> DataMode(Gna2DataTypeInt32, Gna2TensorModeDefault),
      Buffer |-> "output"] : rows \in 0..MaxRows}
    \cup
    {[Dimensions |-> [d \in {"H", "W"} |-> IF d = "H" THEN MaxRows ELSE 1],
      Mode |-> DataMode(Gna2DataTypeCompoundBias, Gna2TensorModeDefault),
      Buffer |-> "output"]}

TransformFactoryConfigs ==
    {[input |-> input, output |-> output, outputBuffer |-> "output",
      validator |-> [Operation |-> operation]] :
        input \in InputTensors, output \in OutputTensors, operation \in AffineOperations}

\* the descriptors of one operation: a single-bias descriptor carries no weight
\* scales and no bias vector index
OperationConfigs(operation) ==
    {[Operation |-> operation, BiasMode |-> Gna2BiasModeDefault,
      WeightsTensor |-> w, BiasesTensor |-> b, BiasVectorIndex |-> 0,
      WeightScalesTensor |-> DisabledTensor] :
        w \in WeightsTensors, b \in BiasesTensors}
    \cup
    {[Operation |-> operation, BiasMode |-> Gna2BiasModeGrouping,
      WeightsTensor |-> w, BiasesTensor |-> b, BiasVectorIndex |-> i,
      WeightScalesTensor |-> s] :
        w \in WeightsTensors, b \in BiasesTensors, i \in {0, 2},
        s \in WeightScalesTensors}

ActiveLists == {[IndicesCount |-> n] : n \in 0..(MaxRows + 1)}
LayerConfigurations == {{}, {[ActList |-> {}]}} \cup {{[ActList |-> {a}]} : a \in ActiveLists}

NoCall ==
    [op |-> "none", operandIndex |-> NoOperand, indicesCount |-> 0, accel |-> "none",
     activeList |-> FALSE, status |-> "none", tensor |-> {}, kernel |-> "none"]

NotCreated == [status |-> "none", operand |-> NoOperand, transform |-> {}]

\* ------------------------------------------ idle values of the other parts
AffineIdle ==
    /\ operationConfig = {}
    /\ created = NotCreated
    /\ ret = NoCall
    /\ nCalls = 0

\* the hardware detection that builds the dispatch tables, once per process
DetectAcceleration ==
    /\ detected \in {{Generic}, AccelerationModes}
    /\ alBiasTypes \in {BiasTypes, {Gna2DataTypeInt32, Gna2DataTypeCompoundBias}}

\* ------------------------------------------------------- affine actions
\* AffineFunction::Create(config, operationConfig)
AffineCreate ==
    /\ operationConfig = {}
    /\ \E config \in TransformFactoryConfigs :
       \E opConfig \in OperationConfigs(config.validator.Operation) :
            /\ operationConfig' = {[config |-> config, opConfig |-> opConfig]}
            /\ created' = AffineFunction_Create(config, opConfig)
    /\ UNCHANGED <<detected, alBiasTypes, ret, nCalls, poolVars, driverVars, handleVars>>

\* transform->GetOperand(operandIndex)
CallGetOperand ==
    /\ created.transform # {}
    /\ nCalls < MaxCalls
    /\ \E operandIndex \in OperandIndices :
        LET r == GetOperand(TheOne(created.transform), operandIndex)
        IN  ret' = [NoCall EXCEPT !.op = "GetOperand", !.operandIndex = operandIndex,
                                  !.status = r.status, !.tensor = r.tensor]
    /\ nCalls' = nCalls + 1
    /\ UNCHANGED <<detected, alBiasTypes, operationConfig, created, poolVars, driverVars, handleVars>>

\* single->ValidateActiveList(activeList)
CallValidateActiveList ==
    /\ created.transform # {}
    /\ TheOne(created.transform).variant = "Single"
    /\ nCalls < MaxCalls
    /\ \E activeList \in ActiveLists :
        ret' = [NoCall EXCEPT !.op = "ValidateActiveList",
                              !.indicesCount = activeList.IndicesCount,
                              !.status = ValidateActiveList(TheOne(created.transform),
                                                            activeList)]
    /\ nCalls' = nCalls + 1
    /\ UNCHANGED <<detected, alBiasTypes, operationConfig, created, poolVars, driverVars, handleVars>>

\* transform->Compute(accel, layerConfiguration, execution)
CallCompute ==
    /\ created.transform # {}
    /\ nCalls < MaxCalls
    /\ \E accel \in AccelerationModes, layerConfiguration \in LayerConfigurations :
        LET r == Compute(TheOne(created.transform), accel, layerConfiguration)
        IN  ret' = [NoCall EXCEPT
                !.op = "Compute", !.accel = accel,
                !.activeList = (layerConfiguration # {}
                                /\ TheOne(layerConfiguration).ActList # {}),
                !.status = r.status, !.kernel = r.kernel]
    /\ nCalls' = nCalls + 1
    /\ UNCHANGED <<detected, alBiasTypes, operationConfig, created, poolVars, driverVars, handleVars>>

\* =============================================================== pooling
CNN_POOL_SIZE_MIN == MinPoolSize
CNN_POOL_SIZE_MAX == MaxPoolSize

Gna2PoolingModeDisabled == "Gna2PoolingModeDisabled"
Gna2PoolingModeMax == "Gna2PoolingModeMax"
Gna2PoolingModeSum == "Gna2PoolingModeSum"
Gna2PoolingModes == {Gna2PoolingModeDisabled, Gna2PoolingModeMax, Gna2PoolingModeSum}
INTEL_NO_POOLING == "INTEL_NO_POOLING"
INTEL_MAX_POOLING == "INTEL_MAX_POOLING"
INTEL_SUM_POOLING == "INTEL_SUM_POOLING"
KernelPoolingModeNone == "KernelPoolingModeNone"
KernelPoolingModeMax == "KernelPoolingModeMax"
KernelPoolingModeSum == "KernelPoolingModeSum"
\* a mode value outside the enumeration, in either form
InvalidPoolingMode == "InvalidPoolingMode"

\* PoolingMode::PoolingMode(Gna2PoolingMode) and PoolingMode(nn_pool_type): the
\* kernel's pooling mode of an API or legacy mode
PoolingMode(mode) ==
    CASE mode \in {Gna2PoolingModeMax, INTEL_MAX_POOLING} -> KernelPoolingModeMax
      [] mode \in {Gna2PoolingModeSum, INTEL_SUM_POOLING} -> KernelPoolingModeSum
      [] OTHER -> KernelPoolingModeNone

\* PoolingFunction::windowLimits / strideLimits, per operation and dimension:
\* {min, max, multiple-of, status}
PoolingFunction_windowLimits ==
    [min |-> CNN_POOL_SIZE_MIN, max |-> CNN_POOL_SIZE_MAX, multipliers |-> 1,
     error |-> Gna2StatusCnnErrorPoolSize]
PoolingFunction_strideLimits ==
    [min |-> CNN_POOL_SIZE_MIN, max |-> CNN_POOL_SIZE_MAX, multipliers |-> 1,
     error |-> Gna2StatusCnnErrorPoolStride]

\* GNA::ExpectShapeIsValid(shape, limits) run by ModelErrorHelper::
\* ExecuteForModelItem: the status thrown for the first dimension out of its
\* limits, or success
ExpectShapeIsValid(shape, limits) ==
    IF \A d \in DOMAIN shape :
            /\ InRange(shape[d], limits.min, limits.max)
            /\ shape[d] % limits.multipliers = 0
    THEN Gna2StatusSuccess
    ELSE limits.error

PoolThrown(status, ctor) == [status |-> status, ctor |-> ctor, function |-> {}]
NoPooling == [status |-> Gna2StatusSuccess, ctor |-> FALSE, function |-> {}]

\* the output extent of one non-depth dimension, in uint32_t arithmetic (the
\* input extent is positive, so nothing wraps)
OutputExtent(inputExtent, stride) == ((inputExtent - 1) \div stride) + 1

\* a constructor that divides the input extent itself by the stride
PoolingFunction_DividesExtent(operation, inputDimensions, window, stride, mode, kernelsIn) ==
    IF mode \notin {KernelPoolingModeMax, KernelPoolingModeSum}
    THEN PoolThrown(Gna2StatusCnnErrorPoolType, TRUE)
    ELSE IF ExpectShapeIsValid(stride, PoolingFunction_strideLimits) # Gna2StatusSuccess
    THEN PoolThrown(ExpectShapeIsValid(stride, PoolingFunction_strideLimits), TRUE)
    ELSE IF ExpectShapeIsValid(window, PoolingFunction_windowLimits) # Gna2StatusSuccess
    THEN PoolThrown(ExpectShapeIsValid(window, PoolingFunction_windowLimits), TRUE)
    ELSE
        LET OutputDimensions ==
                [d \in {"D"} \cup DOMAIN stride |->
                    IF d = "D" THEN inputDimensions["D"]
                    ELSE (inputDimensions[d] \div stride[d]) + 1]
        IN  IF \E d \in DOMAIN stride \ {"D"} :
                    ~InRange(OutputDimensions[d], 1, inputDimensions[d])
            THEN PoolThrown(Gna2StatusCnnErrorPoolSize, TRUE)
            ELSE [status |-> Gna2StatusSuccess, ctor |-> TRUE,
                  function |-> {[Mode |-> mode, Window |-> window, Stride |-> stride,
                                 kernels |-> kernelsIn,
                                 hiddenConfig |-> [Mode |-> mode, Size |-> window["W"],
                                                   Step |-> stride["W"]],
                                 OutputDimensions |-> OutputDimensions,
                                 OutputsPerFilterCount |-> OutputDimensions["W"]]}]

\* PoolingFunction::PoolingFunction
PoolingFunction(operation, inputDimensions, window, stride, mode, kernelsIn) ==
    IF mode \notin {KernelPoolingModeMax, KernelPoolingModeSum}
    THEN PoolThrown(Gna2StatusCnnErrorPoolType, TRUE)
    ELSE IF ExpectShapeIsValid(stride, PoolingFunction_strideLimits) # Gna2StatusSuccess
    THEN PoolThrown(ExpectShapeIsValid(stride, PoolingFunction_strideLimits), TRUE)
    ELSE IF ExpectShapeIsValid(window, PoolingFunction_windowLimits) # Gna2StatusSuccess
    THEN PoolThrown(ExpectShapeIsValid(window, PoolingFunction_windowLimits), TRUE)
    ELSE
        LET OutputDimensions ==
                [d \in {"D"} \cup DOMAIN stride |->
                    IF d = "D" THEN inputDimensions["D"]
                    ELSE OutputExtent(inputDimensions[d], stride[d])]
        IN  IF \E d \in DOMAIN stride \ {"D"} :
                    ~InRange(OutputDimensions[d], 1, inputDimensions[d])
            THEN PoolThrown(Gna2StatusCnnErrorPoolSize, TRUE)
            ELSE [status |-> Gna2StatusSuccess, ctor |-> TRUE,
                  function |-> {[Mode |-> mode, Window |-> window, Stride |-> stride,
                                 kernels |-> kernelsIn,
                                 hiddenConfig |-> [Mode |-> mode, Size |-> window["W"],
                                                   Step |-> stride["W"]],
                                 OutputDimensions |-> OutputDimensions,
                                 OutputsPerFilterCount |-> OutputDimensions["W"]]}]

\* AccelerationDetector::GetKernelMap<ConvolutionPoolingKernel>(KERNEL_POOLING,
\* inputMode): pooling kernels exist for 1- and 2-byte inputs
GetPoolingKernelMap(inputMode) ==
    IF inputMode.Type \in {Gna2DataTypeInt8, Gna2DataTypeInt16}
    THEN [found |-> TRUE, map |-> BucketModes(inputMode.Type)]
    ELSE [found |-> FALSE, map |-> {}]

ShapeW(extent) == [d \in {"W"} |-> extent]

\* PoolingFunction::ExpectValid: a window or a stride asks for all three of
\* mode, window and stride
ExpectValid(apiOperation) ==
    IF /\ apiOperation.Window # {} \/ apiOperation.Stride # {}
       /\ apiOperation.Mode = {} \/ apiOperation.Window = {} \/ apiOperation.Stride = {}
    THEN Gna2StatusModelConfigurationInvalid
    ELSE Gna2StatusSuccess

\* a Create that takes every mode other than Max and Sum for Disabled
PoolingFunction_CreateApi_NoModeCheck(apiOperation, inputDimensions, validatorIn, inputMode) ==
    IF validatorIn.Operation # INTEL_CONVOLUTIONAL
    THEN PoolThrown(Gna2StatusXnnErrorLyrOperation, FALSE)
    ELSE IF ExpectValid(apiOperation) # Gna2StatusSuccess
    THEN PoolThrown(ExpectValid(apiOperation), FALSE)
    ELSE
        LET poolingMode == IF apiOperation.Mode = {} THEN Gna2PoolingModeDisabled
                           ELSE TheOne(apiOperation.Mode)
        IN  IF poolingMode \in {Gna2PoolingModeMax, Gna2PoolingModeSum}
            THEN IF apiOperation.Stride = {} \/ apiOperation.Window = {}
                 THEN PoolThrown(Gna2StatusModelConfigurationInvalid, FALSE)
                 ELSE IF ~GetPoolingKernelMap(inputMode).found
                 THEN PoolThrown(Gna2StatusNotImplemented, FALSE)
                 ELSE PoolingFunction(validatorIn.Operation, inputDimensions,
                            ShapeW(TheOne(apiOperation.Window)),
                            ShapeW(TheOne(apiOperation.Stride)),
                            PoolingMode(poolingMode),
                            GetPoolingKernelMap(inputMode).map)
            ELSE NoPooling

\* PoolingFunction::Create(Gna2Operation const &, ...): a parameter of the
\* operation is a pointer ({}: not supplied)
PoolingFunction_CreateApi(apiOperation, inputDimensions, validatorIn, inputMode) ==
    IF validatorIn.Operation # INTEL_CONVOLUTIONAL
    THEN PoolThrown(Gna2StatusXnnErrorLyrOperation, FALSE)
    ELSE IF ExpectValid(apiOperation) # Gna2StatusSuccess
    THEN PoolThrown(ExpectValid(apiOperation), FALSE)
    ELSE
        LET poolingMode == IF apiOperation.Mode = {} THEN Gna2PoolingModeDisabled
                           ELSE TheOne(apiOperation.Mode)
        IN  IF poolingMode \in {Gna2PoolingModeMax, Gna2PoolingModeSum}
            THEN IF apiOperation.Stride = {} \/ apiOperation.Window = {}
                 THEN PoolThrown(Gna2StatusModelConfigurationInvalid, FALSE)
                 ELSE IF ~GetPoolingKernelMap(inputMode).found
                 THEN PoolThrown(Gna2StatusNotImplemented, FALSE)
                 ELSE PoolingFunction(validatorIn.Operation, inputDimensions,
                            ShapeW(TheOne(apiOperation.Window)),
                            ShapeW(TheOne(apiOperation.Stride)),
                            PoolingMode(poolingMode),
                            GetPoolingKernelMap(inputMode).map)
            ELSE IF poolingMode # Gna2PoolingModeDisabled
                 THEN PoolThrown(Gna2StatusModelConfigurationInvalid, FALSE)
                 ELSE NoPooling

\* PoolingFunction::Create(void const * layerDetails, ...): the legacy
\* nn_layer_conv carries poolType, nPoolStride and nPoolSize
PoolingFunction_CreateLegacy(layerDetails, inputDimensions, validatorIn, inputMode) ==
    IF validatorIn.Operation # INTEL_CONVOLUTIONAL
    THEN PoolThrown(Gna2StatusXnnErrorLyrOperation, FALSE)
    ELSE IF INTEL_NO_POOLING # layerDetails.poolType
    THEN IF ~GetPoolingKernelMap(inputMode).found
         THEN PoolThrown(Gna2StatusNotImplemented, FALSE)
         ELSE PoolingFunction(validatorIn.Operation, inputDimensions,
                    ShapeW(layerDetails.nPoolSize), ShapeW(layerDetails.nPoolStride),
                    PoolingMode(layerDetails.poolType),
                    GetPoolingKernelMap(inputMode).map)
    ELSE NoPooling

\* PoolingFunction::Compute: kernels.at(accel) with nothing catching what a
\* missing entry throws
PoolingFunction_Compute(f, accel) ==
    IF accel \in f.kernels
    THEN [status |-> Gna2StatusSuccess, kernel |-> "kernels"]
    ELSE [status |-> StdOutOfRange, kernel |-> "none"]

\* ------------------------------------------------------ pooling actions
PoolExtents == 0..(CNN_POOL_SIZE_MAX + 1)
PoolInputDimensions == {[d \in {"W", "D"} |-> IF d = "W" THEN w ELSE 2] : w \in 1..MaxExtent}
PoolInputModes ==
    {DataMode(t, Gna2TensorModeDefault) : t \in {Gna2DataTypeInt16, Gna2DataTypeInt32}}
PoolOperations == {INTEL_CONVOLUTIONAL, INTEL_AFFINE}
Optional(S) == {{}} \cup {{x} : x \in S}

PoolNotCreated == [status |-> "none", ctor |-> FALSE, function |-> {}]
PoolNoCall == [op |-> "none", accel |-> "none", status |-> "none", kernel |-> "none"]

PoolingIdle ==
    /\ poolRequest = {}
    /\ pooling = PoolNotCreated
    /\ poolRet = PoolNoCall

\* PoolingFunction::Create(apiOperation, inputDimensions, validatorIn, inputMode)
PoolCreateApi ==
    /\ poolRequest = {}
    /\ \E mode \in Optional(Gna2PoolingModes \cup {InvalidPoolingMode}),
          window \in Optional(PoolExtents), stride \in Optional(PoolExtents),
          inputDimensions \in PoolInputDimensions, inputMode \in PoolInputModes,
          operation \in PoolOperations :
            /\ poolRequest' = {[form |-> "api", operation |-> operation, mode |-> mode,
                                window |-> window, stride |-> stride,
                                inputDimensions |-> inputDimensions,
                                inputMode |-> inputMode]}
            /\ pooling' = PoolingFunction_CreateApi(
                                [Mode |-> mode, Window |-> window, Stride |-> stride],
                                inputDimensions, [Operation |-> operation], inputMode)
    /\ UNCHANGED <<detected, poolRet, alBiasTypes, operationConfig, created, ret, nCalls, driverVars, handleVars>>

\* PoolingFunction::Create(layerDetails, inputDimensions, validatorIn, inputMode)
PoolCreateLegacy ==
    /\ poolRequest = {}
    /\ \E poolType \in {INTEL_NO_POOLING, INTEL_MAX_POOLING, INTEL_SUM_POOLING,
                        InvalidPoolingMode},
          nPoolSize \in PoolExtents, nPoolStride \in PoolExtents,
          inputDimensions \in PoolInputDimensions, inputMode \in PoolInputModes,
          operation \in PoolOperations :
            /\ poolRequest' = {[form |-> "legacy", operation |-> operation,
                                mode |-> {poolType}, window |-> {nPoolSize},
                                stride |-> {nPoolStride},
                                inputDimensions |-> inputDimensions,
                                inputMode |-> inputMode]}
            /\ pooling' = PoolingFunction_CreateLegacy(
                                [poolType |-> poolType, nPoolStride |-> nPoolStride,
                                 nPoolSize |-> nPoolSize],
                                inputDimensions, [Operation |-> operation], inputMode)
    /\ UNCHANGED <<detected, poolRet, alBiasTypes, operationConfig, created, ret, nCalls, driverVars, handleVars>>

\* pooling->Compute(convolutionConfig, accel, poolScratchPad, pwl)
PoolCompute ==
    /\ pooling.function # {}
    /\ poolRet = PoolNoCall
    /\ \E accel \in AccelerationModes :
        LET r == PoolingFunction_Compute(TheOne(pooling.function), accel)
        IN  poolRet' = [op |-> "Compute", accel |-> accel, status |-> r.status,
                        kernel |-> r.kernel]
    /\ UNCHANGED <<detected, poolRequest, pooling, alBiasTypes, operationConfig, created, ret, nCalls, driverVars, handleVars>>

\* ================================================================ driver
WAIT_FOR_MAP_ITERATIONS == MaxIterations
FORBIDDEN_MEMORY_ID == 0

Gna2StatusWarningDeviceBusy == "Gna2StatusWarningDeviceBusy"
StatusMemoryNotMapped == "MemoryNotMapped"
StatusDeviceHangRecoveryRequired == "DeviceHangRecoveryRequired"
StatusIoFailure == "IoFailure"
StatusPending == "pending"

\* GetLastError values
ERROR_SUCCESS == "ERROR_SUCCESS"
WAIT_TIMEOUT == "WAIT_TIMEOUT"
ERROR_GEN_FAILURE == "ERROR_GEN_FAILURE"

\* the predicates wait and verify hand to getOverlappedResult
Predicate(predicate, ioResult, error) ==
    CASE predicate = "isTimeout" -> ~ioResult /\ error = WAIT_TIMEOUT
      [] predicate = "isHang" -> ~ioResult /\ error = ERROR_GEN_FAILURE
      [] OTHER -> ~ioResult

\* a throwOnFailedPredicate that throws whatever the predicate says
throwOnFailedPredicate_Always(predicate, ioResult, error, status) == status

\* WindowsDriverInterface::throwOnFailedPredicate: the status thrown, or
\* success when the predicate does not hold of (ioResult, GetLastError())
throwOnFailedPredicate(predicate, ioResult, error, status) ==
    IF Predicate(predicate, ioResult, error) THEN status ELSE Gna2StatusSuccess

\* WindowsDriverInterface::getOverlappedResult: io is what GetOverlappedResultEx
\* gave within the timeout, [ioResult, error]
getOverlappedResult(predicate, io, status) ==
    throwOnFailedPredicate(predicate, io.ioResult, io.error, status)

\* GetOverlappedResultEx on the request's completion handle: the request
\* completed, failed, or the timeout passed
WaitResult(requestState) ==
    CASE requestState = "completed" -> [ioResult |-> TRUE, error |-> ERROR_SUCCESS]
      [] requestState = "failed" -> [ioResult |-> FALSE, error |-> ERROR_GEN_FAILURE]
      [] OTHER -> [ioResult |-> FALSE, error |-> WAIT_TIMEOUT]

\* the verification call's result: it fails when the hardware hangs
VerifyResult(requestState) ==
    IF requestState = "hung"
    THEN [ioResult |-> FALSE, error |-> ERROR_GEN_FAILURE]
    ELSE [ioResult |-> TRUE, error |-> ERROR_SUCCESS]

MemoryIds == 1..MaxIds
NoMapping == [memory |-> 0, attempts |-> 0]
NoRequest == [waits |-> 0, timeouts |-> 0, verified |-> "none"]
DeviceIdle == [memoryId |-> FORBIDDEN_MEMORY_ID, visibleAfter |-> -1, request |-> "none"]
\* what a driver call gave; for an unmap, again says the call before it was an
\* unmap of the same id, and removed that this id was in the table when the
\* first of these unmaps came
DriverCall(op, id, status) ==
    [op |-> op, id |-> id, status |-> status, again |-> FALSE, removed |-> FALSE]
UnmapCall(memoryId, status) ==
    [op |-> "MemoryUnmap", id |-> memoryId, status |-> status,
     again |-> (lastCall.op = "MemoryUnmap" /\ lastCall.id = memoryId),
     removed |-> \/ memoryId \in memoryMapRequests
                 \/ lastCall.op = "MemoryUnmap" /\ lastCall.id = memoryId
                    /\ lastCall.removed]
NoDriverCall == DriverCall("none", FORBIDDEN_MEMORY_ID, "none")

DriverIdle ==
    /\ pc = "idle"
    /\ memoryMapRequests = {}
    /\ mapping = NoMapping
    /\ request = NoRequest
    /\ device = DeviceIdle
    /\ lastCall = NoDriverCall
    /\ nDriverCalls = 0

\* MemoryMap(memory, memorySize): the map command is sent and the start of
\* the buffer, where the device will write the mapping id, is cleared
MemoryMapBegin ==
    /\ pc = "idle"
    /\ nDriverCalls < MaxDriverCalls
    /\ \E memory \in MemoryIds \ memoryMapRequests :
        mapping' = [memory |-> memory, attempts |-> 0]
    /\ device' = [device EXCEPT !.memoryId = FORBIDDEN_MEMORY_ID, !.visibleAfter = -1]
    /\ lastCall' = DriverCall("MemoryMap", FORBIDDEN_MEMORY_ID, StatusPending)
    /\ pc' = "mapping"
    /\ nDriverCalls' = nDriverCalls + 1
    /\ UNCHANGED <<memoryMapRequests, request, affineVars, poolVars, handleVars>>

\* the device registers the buffer and writes its mapping id into it
DeviceMapsMemory ==
    /\ pc = "mapping"
    /\ device.memoryId = FORBIDDEN_MEMORY_ID
    /\ device' = [device EXCEPT !.memoryId = mapping.memory,
                                !.visibleAfter = mapping.attempts]
    /\ UNCHANGED <<pc, memoryMapRequests, mapping, request, lastCall, nDriverCalls, affineVars, poolVars, handleVars>>

\* a poll that allows one attempt more than the bound
MemoryMapPoll_OneMore ==
    /\ pc = "mapping"
    /\ mapping.attempts < WAIT_FOR_MAP_ITERATIONS + 1
    /\ mapping' = [mapping EXCEPT !.attempts = @ + 1]
    /\ IF device.memoryId # FORBIDDEN_MEMORY_ID
       THEN /\ memoryMapRequests' = memoryMapRequests \cup {device.memoryId}
            /\ lastCall' = DriverCall("MemoryMap", device.memoryId, Gna2StatusSuccess)
            /\ pc' = "idle"
       ELSE UNCHANGED <<memoryMapRequests, lastCall, pc>>
    /\ UNCHANGED <<request, device, nDriverCalls, affineVars, poolVars, handleVars>>

\* MemoryMap, one attempt: the id is read from the buffer; a mapped buffer is
\* entered in memoryMapRequests and its id returned, otherwise the call sleeps
\* WAIT_FOR_MAP_MILLISECONDS
MemoryMapPoll ==
    /\ pc = "mapping"
    /\ mapping.attempts < WAIT_FOR_MAP_ITERATIONS
    /\ mapping' = [mapping EXCEPT !.attempts = @ + 1]
    /\ IF device.memoryId # FORBIDDEN_MEMORY_ID
       THEN /\ memoryMapRequests' = memoryMapRequests \cup {device.memoryId}
            /\ lastCall' = DriverCall("MemoryMap", device.memoryId, Gna2StatusSuccess)
            /\ pc' = "idle"
       ELSE UNCHANGED <<memoryMapRequests, lastCall, pc>>
    /\ UNCHANGED <<request, device, nDriverCalls, affineVars, poolVars, handleVars>>

\* MemoryMap, the bound exhausted: the "memory not mapped" error
MemoryMapGiveUp ==
    /\ pc = "mapping"
    /\ mapping.attempts >= WAIT_FOR_MAP_ITERATIONS
    /\ lastCall' = DriverCall("MemoryMap", FORBIDDEN_MEMORY_ID, StatusMemoryNotMapped)
    /\ pc' = "idle"
    /\ UNCHANGED <<memoryMapRequests, mapping, request, device, nDriverCalls, affineVars, poolVars, handleVars>>

\* an unmap that refuses an id it does not know
MemoryUnmap_Strict ==
    /\ pc = "idle"
    /\ nDriverCalls < MaxDriverCalls
    /\ \E memoryId \in 0..(MaxIds + 1) :
        IF memoryId \in memoryMapRequests
        THEN /\ memoryMapRequests' = memoryMapRequests \ {memoryId}
             /\ lastCall' = UnmapCall(memoryId, Gna2StatusSuccess)
        ELSE /\ memoryMapRequests' = memoryMapRequests
             /\ lastCall' = UnmapCall(memoryId, StatusIoFailure)
    /\ nDriverCalls' = nDriverCalls + 1
    /\ UNCHANGED <<pc, mapping, request, device, affineVars, poolVars, handleVars>>

\* MemoryUnmap(memoryId): the entry, if any, leaves memoryMapRequests
MemoryUnmap ==
    /\ pc = "idle"
    /\ nDriverCalls < MaxDriverCalls
    /\ \E memoryId \in 0..(MaxIds + 1) :
        /\ memoryMapRequests' = memoryMapRequests \ {memoryId}
        /\ lastCall' = UnmapCall(memoryId, Gna2StatusSuccess)
    /\ nDriverCalls' = nDriverCalls + 1
    /\ UNCHANGED <<pc, mapping, request, device, affineVars, poolVars, handleVars>>

\* Submit(hardwareRequest, profiler): the request is written to the device
\* with the session's completion handle and the wait for it begins
Submit ==
    /\ pc = "idle"
    /\ nDriverCalls < MaxDriverCalls
    /\ request' = NoRequest
    /\ device' = [device EXCEPT !.request = "running"]
    /\ lastCall' = DriverCall("Submit", FORBIDDEN_MEMORY_ID, StatusPending)
    /\ pc' = "wait"
    /\ nDriverCalls' = nDriverCalls + 1
    /\ UNCHANGED <<memoryMapRequests, mapping, affineVars, poolVars, handleVars>>

\* the device finishes, hangs on, or fails the request it is running
DeviceEnds ==
    /\ pc \in {"wait", "verify"}
    /\ device.request = "running"
    /\ \E end \in {"completed", "hung", "failed"} :
        device' = [device EXCEPT !.request = end]
    /\ UNCHANGED <<pc, memoryMapRequests, mapping, request, lastCall, nDriverCalls, affineVars, poolVars, handleVars>>

\* WindowsDriverInterface::wait: the completion wait, bounded by the recovery
\* timeout; a timeout goes to verify, a failed io ends the call
wait ==
    /\ pc = "wait"
    /\ LET io == WaitResult(device.request)
           status == getOverlappedResult("isTimeout", io, Gna2StatusWarningDeviceBusy)
       IN  IF status = Gna2StatusWarningDeviceBusy
           THEN /\ request.timeouts < MaxWaits
                /\ request' = [request EXCEPT !.waits = @ + 1, !.timeouts = @ + 1]
                /\ pc' = "verify"
                /\ UNCHANGED lastCall
           ELSE /\ request' = [request EXCEPT !.waits = @ + 1]
                /\ pc' = "idle"
                /\ lastCall' = [lastCall EXCEPT !.status =
                        IF io.ioResult THEN Gna2StatusSuccess ELSE StatusIoFailure]
    /\ UNCHANGED <<memoryMapRequests, mapping, device, nDriverCalls, affineVars, poolVars, handleVars>>

\* WindowsDriverInterface::verify: the secondary call after a timeout; a
\* confirmed hardware hang ends the call, otherwise the wait goes on
verify ==
    /\ pc = "verify"
    /\ LET io == VerifyResult(device.request)
           status == getOverlappedResult("isHang", io, StatusDeviceHangRecoveryRequired)
       IN  /\ request' = [request EXCEPT !.verified =
                            IF io.ioResult THEN "running" ELSE "hang"]
           /\ IF status # Gna2StatusSuccess
              THEN /\ pc' = "idle"
                   /\ lastCall' = [lastCall EXCEPT !.status = status]
              ELSE /\ pc' = "wait"
                   /\ UNCHANGED lastCall
    /\ UNCHANGED <<memoryMapRequests, mapping, device, nDriverCalls, affineVars, poolVars, handleVars>>

\* ================================================================ WinHandle
INVALID_HANDLE_VALUE == "INVALID_HANDLE_VALUE"
Gna2StatusIdentifierInvalid == "Gna2StatusIdentifierInvalid"

\* the values a HANDLE takes: the invalid one and the handles the system gives
Handles == {INVALID_HANDLE_VALUE, "handle1", "handle2", "handle3"}

\* Expect::Equal(expected, actual, status): the status raised, or success
ExpectEqual(expected, actual, status) ==
    IF expected = actual THEN Gna2StatusSuccess ELSE status

\* WinHandle::WinHandle()
WinHandle_Default == [deviceHandle |-> INVALID_HANDLE_VALUE]

\* WinHandle::WinHandle(HANDLE const handle)
WinHandle_Explicit(handle) == [deviceHandle |-> handle]

\* a Set that stores the handle whatever the object holds
WinHandle_Set_Overwrites(this, handle) ==
    [status |-> Gna2StatusSuccess, this |-> [this EXCEPT !.deviceHandle = handle]]

\* WinHandle::Set: the status raised and the object after the call
WinHandle_Set(this, handle) ==
    LET status == ExpectEqual(INVALID_HANDLE_VALUE, this.deviceHandle,
                              Gna2StatusIdentifierInvalid)
    IN  IF status # Gna2StatusSuccess
        THEN [status |-> status, this |-> this]
        ELSE [status |-> status, this |-> [this EXCEPT !.deviceHandle = handle]]

\* WinHandle::~WinHandle: the CloseHandle calls made and the object after them
WinHandle_Destructor(this) ==
    IF INVALID_HANDLE_VALUE # this.deviceHandle
    THEN [closeHandle |-> <<this.deviceHandle>>,
          this |-> [this EXCEPT !.deviceHandle = INVALID_HANDLE_VALUE]]
    ELSE [closeHandle |-> <<>>, this |-> this]

NoHandle == [lifetime |-> "none", object |-> {}, stored |-> <<>>]
NoSet == [op |-> "none", handle |-> INVALID_HANDLE_VALUE, status |-> "none",
          before |-> INVALID_HANDLE_VALUE, after |-> INVALID_HANDLE_VALUE]

\* the valid handles a step stores, appended to those stored before
Stored(stored, before, after) ==
    IF after # INVALID_HANDLE_VALUE /\ after # before
    THEN Append(stored, after) ELSE stored

HandleIdle ==
    /\ winHandle = NoHandle
    /\ closed = <<>>
    /\ handleRet = NoSet
    /\ nSets = 0

\* WinHandle handle;
HandleConstructDefault ==
    /\ winHandle.lifetime = "none"
    /\ winHandle' = [lifetime |-> "alive", object |-> {WinHandle_Default},
                     stored |-> <<>>]
    /\ UNCHANGED <<closed, handleRet, nSets, affineVars, poolVars, driverVars>>

\* WinHandle handle{h};
HandleConstructExplicit ==
    /\ winHandle.lifetime = "none"
    /\ \E handle \in Handles :
        winHandle' = [lifetime |-> "alive", object |-> {WinHandle_Explicit(handle)},
                      stored |-> Stored(<<>>, INVALID_HANDLE_VALUE, handle)]
    /\ UNCHANGED <<closed, handleRet, nSets, affineVars, poolVars, driverVars>>

\* handle.Set(h)
HandleSet ==
    /\ winHandle.lifetime = "alive"
    /\ nSets < MaxSets
    /\ \E handle \in Handles :
        LET this == TheOne(winHandle.object)
            r == WinHandle_Set(this, handle)
        IN  /\ winHandle' = [winHandle EXCEPT
                    !.object = {r.this},
                    !.stored = Stored(@, this.deviceHandle, r.this.deviceHandle)]
            /\ handleRet' = [op |-> "Set", handle |-> handle, status |-> r.status,
                             before |-> this.deviceHandle,
                             after |-> r.this.deviceHandle]
    /\ nSets' = nSets + 1
    /\ UNCHANGED <<closed, affineVars, poolVars, driverVars>>

\* the object goes out of scope
HandleDestroy ==
    /\ winHandle.lifetime = "alive"
    /\ LET r == WinHandle_Destructor(TheOne(winHandle.object))
       IN  /\ closed' = closed \o r.closeHandle
           /\ winHandle' = [winHandle EXCEPT !.lifetime = "destroyed", !.object = {}]
    /\ UNCHANGED <<handleRet, nSets, affineVars, poolVars, driverVars>>

\* ======================================================== specifications
InitAffine == DetectAcceleration /\ AffineIdle /\ PoolingIdle /\ DriverIdle /\ HandleIdle

NextAffine ==
    \/ AffineCreate
    \/ CallGetOperand
    \/ CallValidateActiveList
    \/ CallCompute

SpecAffine == InitAffine /\ [][NextAffine]_vars

InitPooling ==
    /\ detected \in {{Generic}, AccelerationModes}
    /\ alBiasTypes = BiasTypes
    /\ AffineIdle /\ PoolingIdle /\ DriverIdle /\ HandleIdle

NextPooling ==
    \/ PoolCreateApi
    \/ PoolCreateLegacy
    \/ PoolCompute

SpecPooling == InitPooling /\ [][NextPooling]_vars

InitDriver ==
    /\ detected = AccelerationModes
    /\ alBiasTypes = BiasTypes
    /\ AffineIdle /\ PoolingIdle /\ DriverIdle /\ HandleIdle

NextDriver ==
    \/ MemoryMapBegin
    \/ DeviceMapsMemory
    \/ MemoryMapPoll
    \/ MemoryMapGiveUp
    \/ MemoryUnmap
    \/ Submit
    \/ DeviceEnds
    \/ wait
    \/ verify

SpecDriver == InitDriver /\ [][NextDriver]_vars

InitHandle ==
    /\ detected = AccelerationModes
    /\ alBiasTypes = BiasTypes
    /\ AffineIdle /\ PoolingIdle /\ DriverIdle /\ HandleIdle

NextHandle ==
    \/ HandleConstructDefault
    \/ HandleConstructExplicit
    \/ HandleSet
    \/ HandleDestroy

SpecHandle == InitHandle /\ [][NextHandle]_vars

\* ================================================================ claims
Descriptor == TheOne(operationConfig)
Built == TheOne(created.transform)
ActiveListBiasTypes == {Gna2DataTypeInt32, Gna2DataTypeCompoundBias}

InPoolLimits(extent) == extent >= CNN_POOL_SIZE_MIN /\ extent <= CNN_POOL_SIZE_MAX
PoolArgs == TheOne(poolRequest)

\* C2: when the PoolingFunction constructor runs with mode Max or Sum: a window
\* and a stride both within [CNN_POOL_SIZE_MIN, CNN_POOL_SIZE_MAX] give a
\* function whose W output extent is floor((input - 1) / stride) + 1, within
\* [1, input], the depth carried over; a stride or a window outside gives no
\* function and the status of a limit that is violated (PoolStride for the
\* stride, PoolSize for the window).
C2_PoolingOutputExtent ==
    (/\ pooling.ctor
     /\ PoolingMode(TheOne(PoolArgs.mode)) \in {KernelPoolingModeMax, KernelPoolingModeSum})
    =>
        LET window == TheOne(PoolArgs.window)
            stride == TheOne(PoolArgs.stride)
            input == PoolArgs.inputDimensions
        IN  IF InPoolLimits(window) /\ InPoolLimits(stride)
            THEN /\ pooling.status = Gna2StatusSuccess
                 /\ pooling.function # {}
                 /\ LET out == TheOne(pooling.function).OutputDimensions
                    IN  /\ (out["W"] - 1) * stride <= input["W"] - 1
                        /\ input["W"] - 1 < out["W"] * stride
                        /\ out["W"] >= 1 /\ out["W"] <= input["W"]
                        /\ out["D"] = input["D"]
            ELSE /\ pooling.function = {}
                 /\ pooling.status \in
                        {Gna2StatusCnnErrorPoolStride, Gna2StatusCnnErrorPoolSize}
                 /\ pooling.status = Gna2StatusCnnErrorPoolStride => ~InPoolLimits(stride)
                 /\ pooling.status = Gna2StatusCnnErrorPoolSize => ~InPoolLimits(window)

\* an input of 7 pooled with stride 3 gives 3 outputs
C2_Witness ==
    /\ pooling.function # {}
    /\ PoolArgs.inputDimensions["W"] = 7
    /\ TheOne(PoolArgs.stride) = 3
    /\ TheOne(pooling.function).OutputDimensions["W"] = 3

\* C3: Compute with an acceleration mode that has no entry in the kernel map
\* it uses (single-bias affine: the active-list map when an active list is
\* given, the plain map otherwise; pooling: its map) raises
\* Gna2StatusNotImplemented, and no kernel runs.
C3_ComputeMissingEntry ==
    /\ (ret.op = "Compute" /\ Built.variant = "Single") =>
            LET map == IF ret.activeList THEN TheOne(Built.kernelsAl)
                       ELSE TheOne(Built.kernels)
            IN  ret.accel \notin map =>
                    ret.status = Gna2StatusNotImplemented /\ ret.kernel = "none"
    /\ poolRet.op = "Compute" =>
            (poolRet.accel \notin TheOne(pooling.function).kernels =>
                    poolRet.status = Gna2StatusNotImplemented /\ poolRet.kernel = "none")

\* the single-bias affine half of C3, which the code keeps
C3_AffineHalf ==
    (ret.op = "Compute" /\ Built.variant = "Single") =>
        LET map == BucketModes(Descriptor.config.input.Mode.Type)
        IN  IF ret.accel \in map
            THEN ret.status = Gna2StatusSuccess
                 /\ ret.kernel = (IF ret.activeList THEN "kernelsAl" ELSE "kernels")
            ELSE ret.status = Gna2StatusNotImplemented /\ ret.kernel = "none"

\* what the descriptor's operands must satisfy for each step of Create to pass
StepsPass ==
    LET config == Descriptor.config
        opConfig == Descriptor.opConfig
        multi == opConfig.BiasMode = Gna2BiasModeGrouping
        kernelMode == KernelMode(config.input.Mode,
                          DataMode(opConfig.WeightsTensor.Type, opConfig.WeightsTensor.Mode),
                          DataMode(opConfig.BiasesTensor.Type, opConfig.BiasesTensor.Mode))
    IN  /\ WeightCapable(opConfig.WeightsTensor)
        /\ BiasCapable(opConfig.BiasesTensor,
                       IF multi THEN opConfig.BiasVectorIndex ELSE 0, opConfig.BiasMode)
        /\ (multi /\ opConfig.WeightScalesTensor.Mode # Gna2TensorModeDisabled) =>
                WeightScaleCapable(opConfig.WeightScalesTensor)
        /\ HasBucket(IF multi THEN KERNEL_AFFINE_MULTIBIAS
                     ELSE GetKernelOperation(opConfig.Operation), kernelMode)
        /\ ~multi => HasBucket(KERNEL_AFFINE_AL, kernelMode)
        /\ OutputCapable(IF multi THEN AffineFunctionMulti_outputCapabilities
                         ELSE AffineFunctionSingle_outputCapabilities,
                         config.validator.Operation, config.output)

\* C4: AffineFunction::Create either raises an error and returns no transform,
\* or returns a transform with Weights, Biases, Output and hiddenConfig set and
\* its kernel map(s) resolved; a descriptor that fails any step (weights,
\* biases, weight scales, output, plain or active-list kernel map) gets no
\* transform.
C4_CreateAllOrNothing ==
    created.status # "none" =>
        /\ created.status # Gna2StatusSuccess <=> created.transform = {}
        /\ created.transform # {} =>
            /\ Built.Weights # {} /\ Built.Biases # {}
            /\ Built.Output # {} /\ Built.hiddenConfig # {}
            /\ Built.kernels # {}
            /\ Built.variant = "Single" => Built.kernelsAl # {}
            /\ StepsPass
        /\ ~StepsPass => created.transform = {}

\* the last step to fail, output validation after both kernel maps resolved,
\* leaves nothing
C4_Witness ==
    /\ created.status = Gna2StatusModelConfigurationInvalid
    /\ created.operand = OutputOperandIndex
    /\ created.transform = {}
    /\ Descriptor.opConfig.BiasMode = Gna2BiasModeDefault

\* C5: PoolingFunction::Create on a convolutional operation, in both forms:
\* a disabled (or, in the structured form, absent) mode with no window and no
\* stride gives a null result and no error; a null result without an error is
\* given only for a disabled mode, so every other mode gives a function or an
\* error.
C5_PoolingDisabledNull ==
    (poolRequest # {} /\ PoolArgs.operation = INTEL_CONVOLUTIONAL) =>
        LET disabled ==
                IF PoolArgs.form = "api"
                THEN PoolArgs.mode \in {{}, {Gna2PoolingModeDisabled}}
                ELSE PoolArgs.mode = {INTEL_NO_POOLING}
            notSupplied ==
                PoolArgs.form = "api" => (PoolArgs.window = {} /\ PoolArgs.stride = {})
        IN  /\ (disabled /\ notSupplied) => pooling = NoPooling
            /\ (pooling.function = {} /\ pooling.status = Gna2StatusSuccess) => disabled
            /\ ~disabled => (pooling.function # {} \/ pooling.status # Gna2StatusSuccess)
            /\ pooling.function # {} => pooling.status = Gna2StatusSuccess

\* the structured form with no pooling parameter at all gives null, no error
C5_Witness ==
    /\ poolRequest # {}
    /\ PoolArgs.form = "api"
    /\ PoolArgs.operation = INTEL_CONVOLUTIONAL
    /\ PoolArgs.mode = {} /\ PoolArgs.window = {} /\ PoolArgs.stride = {}
    /\ pooling = NoPooling

\* the Shape and DataMode of a transform's tensor are those of an API tensor
\* laid out with the given number of dimensions
SameShapeAndMode(tensor, api) ==
    /\ DOMAIN tensor.Dimensions = (IF Len(api.Shape) = 2 THEN {"H", "W"} ELSE {"H"})
    /\ tensor.Dimensions["H"] = api.Shape[1]
    /\ Len(api.Shape) = 2 => tensor.Dimensions["W"] = api.Shape[2]
    /\ tensor.Mode.Type = api.Type
    /\ tensor.Mode.Mode = api.Mode
    /\ tensor.Mode.Size = TypeSize(api.Type)

\* C6: the transform Create returns answers GetOperand for the weight role,
\* the bias role and, for a multi-bias transform built with an enabled
\* weight-scale tensor, the weight-scale role with a tensor whose Shape and
\* DataMode are those of the descriptor's operand; a repeated query gives the
\* same answer.
C6_GetOperandRoundTrip ==
    /\ [](ret.op = "GetOperand" =>
            LET opConfig == Descriptor.opConfig
            IN  /\ ret.operandIndex = WeightOperandIndex =>
                    /\ ret.status = Gna2StatusSuccess
                    /\ \A t \in ret.tensor : SameShapeAndMode(t, opConfig.WeightsTensor)
                    /\ ret.tensor # {}
                /\ ret.operandIndex = BiasOperandIndex =>
                    /\ ret.status = Gna2StatusSuccess
                    /\ \A t \in ret.tensor : SameShapeAndMode(t, opConfig.BiasesTensor)
                    /\ ret.tensor # {}
                /\ (/\ ret.operandIndex = WeightScaleFactorOperandIndex
                    /\ Built.variant = "Multi"
                    /\ opConfig.WeightScalesTensor.Mode # Gna2TensorModeDisabled) =>
                    /\ ret.status = Gna2StatusSuccess
                    /\ \A t \in ret.tensor :
                            SameShapeAndMode(t, opConfig.WeightScalesTensor)
                    /\ ret.tensor # {})
    /\ [][(/\ ret.op = "GetOperand" /\ ret'.op = "GetOperand"
           /\ ret'.operandIndex = ret.operandIndex)
          => ret' = ret]_vars

\* the weight-scale tensor of a multi-bias transform, queried a second time
C6_Witness ==
    /\ nCalls = 2
    /\ ret.op = "GetOperand"
    /\ ret.operandIndex = WeightScaleFactorOperandIndex
    /\ ret.status = Gna2StatusSuccess
    /\ \E t \in ret.tensor : t.Mode.Type = Gna2DataTypeWeightScaleFactor

\* the roles a built transform owns, and the buffer of each
OwnedRoles ==
    {InputOperandIndex, OutputOperandIndex, WeightOperandIndex, BiasOperandIndex}
    \cup (IF /\ Built.variant = "Multi"
             /\ Descriptor.opConfig.WeightScalesTensor.Mode # Gna2TensorModeDisabled
          THEN {WeightScaleFactorOperandIndex} ELSE {})
RoleBuffer(operandIndex) ==
    CASE operandIndex = InputOperandIndex -> "input"
      [] operandIndex = OutputOperandIndex -> "output"
      [] operandIndex = WeightOperandIndex -> "weights"
      [] operandIndex = BiasOperandIndex -> "biases"
      [] OTHER -> "scales"

\* C7: GetOperand raises the "not present" error for every role the variant
\* does not own: the weight-scale role of a single-bias transform and of a
\* multi-bias transform built with a Disabled weight-scale tensor among them;
\* a tensor it returns is the one of the role asked for.
C7_GetOperandNotPresent ==
    ret.op = "GetOperand" =>
        /\ ret.operandIndex \notin OwnedRoles =>
                ret.status = StatusOperandNotPresent /\ ret.tensor = {}
        /\ (ret.operandIndex = WeightScaleFactorOperandIndex
            /\ Built.variant = "Single") => ret.status = StatusOperandNotPresent
        /\ (/\ ret.operandIndex = WeightScaleFactorOperandIndex
            /\ Built.variant = "Multi"
            /\ Descriptor.opConfig.WeightScalesTensor.Mode = Gna2TensorModeDisabled) =>
                ret.status = StatusOperandNotPresent
        /\ \A t \in ret.tensor : t.Buffer = RoleBuffer(ret.operandIndex)

\* a multi-bias transform built without weight scales, asked for them
C7_Witness ==
    /\ ret.op = "GetOperand"
    /\ ret.operandIndex = WeightScaleFactorOperandIndex
    /\ Built.variant = "Multi"
    /\ Descriptor.opConfig.WeightScalesTensor.Mode = Gna2TensorModeDisabled
    /\ ret.status = StatusOperandNotPresent

\* C8: MemoryUnmap of an id that is not in memoryMapRequests (never mapped, or
\* removed already) raises no error and leaves the table as it was; unmapping
\* an id removes that entry alone, so a second unmap of it changes nothing.
C8_UnmapIdempotent ==
    [][(lastCall'.op = "MemoryUnmap" /\ nDriverCalls' = nDriverCalls + 1) =>
        /\ lastCall'.status = Gna2StatusSuccess
        /\ memoryMapRequests' = memoryMapRequests \ {lastCall'.id}
        /\ lastCall'.id \notin memoryMapRequests =>
                memoryMapRequests' = memoryMapRequests
        /\ lastCall'.again => memoryMapRequests' = memoryMapRequests]_vars

\* a mapped id unmapped twice in a row
C8_Witness ==
    /\ lastCall.op = "MemoryUnmap"
    /\ lastCall.again
    /\ lastCall.removed
    /\ lastCall.id \in MemoryIds
    /\ lastCall.status = Gna2StatusSuccess

\* C9: MemoryMap of a buffer not yet registered makes at most
\* WAIT_FOR_MAP_ITERATIONS attempts; it returns an id other than
\* FORBIDDEN_MEMORY_ID, entered in the table, exactly when the device made
\* the buffer visible before the last attempt was made, and ends with the
\* "memory not mapped" error otherwise.
C9_MemoryMapBounded ==
    /\ mapping.attempts <= WAIT_FOR_MAP_ITERATIONS
    /\ (lastCall.op = "MemoryMap" /\ lastCall.status = Gna2StatusSuccess) =>
            /\ lastCall.id # FORBIDDEN_MEMORY_ID
            /\ lastCall.id = device.memoryId
            /\ lastCall.id = mapping.memory
            /\ device.visibleAfter >= 0
            /\ device.visibleAfter < mapping.attempts
    /\ (lastCall.op = "MemoryMap" /\ lastCall.status = StatusMemoryNotMapped) =>
            /\ mapping.attempts = WAIT_FOR_MAP_ITERATIONS
            /\ device.visibleAfter \in {-1, WAIT_FOR_MAP_ITERATIONS}
            /\ mapping.memory \notin memoryMapRequests
    /\ (/\ lastCall.op = "MemoryMap" /\ pc = "idle"
        /\ device.visibleAfter >= 0
        /\ device.visibleAfter < WAIT_FOR_MAP_ITERATIONS) =>
            lastCall.status = Gna2StatusSuccess /\ lastCall.id \in memoryMapRequests
    /\ (lastCall.op = "MemoryMap" /\ pc = "idle") =>
            lastCall.status \in {Gna2StatusSuccess, StatusMemoryNotMapped}

\* the buffer became visible just before the last attempt, which succeeded
C9_Witness ==
    /\ lastCall.op = "MemoryMap"
    /\ lastCall.status = Gna2StatusSuccess
    /\ mapping.attempts = WAIT_FOR_MAP_ITERATIONS
    /\ device.visibleAfter = WAIT_FOR_MAP_ITERATIONS - 1

\* C10: a submitted request ends with the hang-recovery status only from
\* verify and only when the verification call confirmed a hardware hang, never
\* from the timeout of the completion wait itself; when verification finds the
\* request running the wait goes on, and a request that completes returns
\* success.
C10_HangOnlyWhenVerified ==
    /\ []((lastCall.op = "Submit"
           /\ lastCall.status = StatusDeviceHangRecoveryRequired) =>
                /\ request.verified = "hang"
                /\ device.request = "hung"
                /\ request.timeouts >= 1)
    /\ []((lastCall.op = "Submit" /\ lastCall.status = Gna2StatusSuccess) =>
                device.request = "completed")
    /\ []((lastCall.op = "Submit" /\ pc = "idle" /\ device.request = "completed") =>
                lastCall.status = Gna2StatusSuccess)
    /\ [][/\ (pc = "wait" /\ pc' # "wait") =>
                /\ lastCall'.status # StatusDeviceHangRecoveryRequired
                /\ pc' = "verify" <=> device.request \in {"running", "hung"}
          /\ (pc = "verify" /\ pc' # "verify") =>
                IF device.request = "hung"
                THEN pc' = "idle"
                     /\ lastCall'.status = StatusDeviceHangRecoveryRequired
                ELSE pc' = "wait" /\ lastCall' = lastCall]_vars

\* a request that timed out, was verified as running, and then completed
C10_Witness ==
    /\ lastCall.op = "Submit"
    /\ lastCall.status = Gna2StatusSuccess
    /\ request.timeouts >= 1
    /\ request.verified = "running"

\* the descriptor's KernelMode, as the builders form it from the operands
DescriptorKernelMode ==
    KernelMode(Descriptor.config.input.Mode,
               DataMode(Descriptor.opConfig.WeightsTensor.Type,
                        Descriptor.opConfig.WeightsTensor.Mode),
               DataMode(Descriptor.opConfig.BiasesTensor.Type,
                        Descriptor.opConfig.BiasesTensor.Mode))
DescriptorIsMulti == Descriptor.opConfig.BiasMode = Gna2BiasModeGrouping

\* the operand checks of Create, one by one
WeightsValid == WeightCapable(Descriptor.opConfig.WeightsTensor)
BiasesValid ==
    BiasCapable(Descriptor.opConfig.BiasesTensor,
                IF DescriptorIsMulti THEN Descriptor.opConfig.BiasVectorIndex ELSE 0,
                Descriptor.opConfig.BiasMode)
WeightScalesValid ==
    (DescriptorIsMulti
     /\ Descriptor.opConfig.WeightScalesTensor.Mode # Gna2TensorModeDisabled)
        => WeightScaleCapable(Descriptor.opConfig.WeightScalesTensor)
OutputValid ==
    OutputCapable(IF DescriptorIsMulti THEN AffineFunctionMulti_outputCapabilities
                  ELSE AffineFunctionSingle_outputCapabilities,
                  Descriptor.config.validator.Operation, Descriptor.config.output)
PlainBucketPresent ==
    HasBucket(IF DescriptorIsMulti THEN KERNEL_AFFINE_MULTIBIAS
              ELSE GetKernelOperation(Descriptor.opConfig.Operation),
              DescriptorKernelMode)
ActiveListBucketPresent == HasBucket(KERNEL_AFFINE_AL, DescriptorKernelMode)
KernelModeAbsent ==
    ~PlainBucketPresent \/ (~DescriptorIsMulti /\ ~ActiveListBucketPresent)

\* C11: a descriptor given to AffineFunction::Create that has an invalid
\* operand (weights, biases, weight scale factors or output) and a KernelMode
\* absent from the dispatch table is rejected with the model-configuration
\* error, never with the not-implemented condition.
C11_ValidationBeforeResolution ==
    (/\ created.status # "none"
     /\ ~(WeightsValid /\ BiasesValid /\ WeightScalesValid /\ OutputValid)
     /\ KernelModeAbsent)
        => /\ created.status = Gna2StatusModelConfigurationInvalid
           /\ created.status # Gna2StatusNotImplemented

\* the part of C11 the code keeps: weights, biases and weight scale factors
\* are validated before any kernel map is looked up
C11_OperandsBeforeResolution ==
    (/\ created.status # "none"
     /\ ~(WeightsValid /\ BiasesValid /\ WeightScalesValid))
        => /\ created.status = Gna2StatusModelConfigurationInvalid
           /\ created.operand \in {WeightOperandIndex, BiasOperandIndex,
                                   WeightScaleFactorOperandIndex}

\* C12: a WinHandle stores at most one valid handle in its lifetime: Set
\* succeeds only while the stored handle is INVALID_HANDLE_VALUE; a Set on an
\* object holding a valid handle raises Gna2StatusIdentifierInvalid and leaves
\* the stored handle as it was; after destruction CloseHandle has been called
\* exactly once, with the stored handle, if a valid handle was stored, and not
\* at all otherwise; it is never called while the object lives.
C12_WinHandleSingleOwner ==
    /\ Len(winHandle.stored) <= 1
    /\ handleRet.op = "Set" =>
        /\ handleRet.status = Gna2StatusSuccess
                <=> handleRet.before = INVALID_HANDLE_VALUE
        /\ handleRet.status = Gna2StatusSuccess => handleRet.after = handleRet.handle
        /\ handleRet.status # Gna2StatusSuccess =>
                /\ handleRet.status = Gna2StatusIdentifierInvalid
                /\ handleRet.after = handleRet.before
    /\ winHandle.lifetime = "alive" =>
        /\ closed = <<>>
        /\ TheOne(winHandle.object).deviceHandle =
                (IF winHandle.stored = <<>> THEN INVALID_HANDLE_VALUE
                 ELSE winHandle.stored[1])
    /\ winHandle.lifetime = "destroyed" => closed = winHandle.stored

\* an object that took its handle from a Set, refused a second Set, and closed
\* the first handle once at destruction
C12_Witness ==
    /\ winHandle.lifetime = "destroyed"
    /\ handleRet.op = "Set"
    /\ handleRet.status = Gna2StatusIdentifierInvalid
    /\ handleRet.handle # handleRet.before
    /\ handleRet.handle # INVALID_HANDLE_VALUE
    /\ closed = <<handleRet.before>>
    /\ nSets >= 2

C14_VariantAndBothKernelMaps ==
    created.status # "none" =>
        /\ created.transform # {} =>
            /\ Built.variant = "Multi" <=> DescriptorIsMulti
            /\ Built.variant = "Single" <=> ~DescriptorIsMulti
            /\ Built.variant = "Single" =>
                /\ PlainBucketPresent /\ ActiveListBucketPresent
                /\ Built.kernels = {BucketModes(DescriptorKernelMode.input.Type)}
                /\ Built.kernelsAl = {BucketModes(DescriptorKernelMode.input.Type)}
            /\ Built.variant = "Multi" =>
                /\ PlainBucketPresent
                /\ Built.kernelsAl = {}
        /\ (~DescriptorIsMulti /\ ~ActiveListBucketPresent) =>
                created.transform = {}

\* a single-bias descriptor with valid operands and a plain kernel bucket is
\* refused for the active-list bucket alone
C14_Witness ==
    /\ created.status = Gna2StatusNotImplemented
    /\ created.transform = {}
    /\ ~DescriptorIsMulti
    /\ WeightsValid /\ BiasesValid /\ OutputValid
    /\ PlainBucketPresent
    /\ ~ActiveListBucketPresent
====
